---- MODULE Spec2Model ----
(***************************************************************************)
(* Model of naver-booking-ping: the JSON state store (JsonStateManager),   *)
(* the jitter scheduler (JitterScheduler), the checker's result and the    *)
(* per-tick orchestration loop (checkLoop).                                *)
(***************************************************************************)
EXTENDS Integers, Sequences, FiniteSets, TLC

VARIABLES
    \* ---- JsonStateManager (unnamed/part_000) ----
    targets,        \* this.targets : Map id -> TargetData
    states,         \* this.states  : Map id -> StateData
    diskTargets,    \* contents of data/targets.json
    diskStates,     \* contents of data/states.json
    logs,           \* contents of data/logs/<id>.json, newest first
    now,            \* the wall clock read by new Date()
    nextId,         \* the next identifier randomUUID() hands out
    last,           \* history: the last store call, its arguments and the state before it
    appended,       \* history: per target, every entry addLog stored, newest first
    \* ---- checkLoop (utils/logger.ts, main) ----
    pc,             \* position of checkLoop inside the current tick
    queue,          \* enabledTargets still to be visited in this tick (snapshots)
    cur,            \* the target snapshot of the running iteration
    result,         \* CheckResult of the running iteration
    prevStatus,     \* prevStatus read from getState in the running iteration
    tickNo,         \* number of ticks started
    pipe,           \* history: the running tick and its running iteration
    calls,          \* history: per target, the number of calls of notifier.send
    trans,          \* history: per target, the recorded status changes into OPEN
    faults,         \* number of exceptions the environment has raised in checkLoop so far
    openRun,        \* history: per target, the calls of notifier.send in its current run of
                    \* consecutive ticks whose check classified it OPEN
    snapshot,       \* history: the page the last check evaluated its rules on
    hb,             \* the heartbeat: configuration, wall clock, data/heartbeat.json, history
    \* ---- JitterScheduler (unnamed/part_001) ----
    isRunning,          \* this.isRunning
    isCallbackRunning,  \* this.isCallbackRunning
    timer,              \* this.timer : handle of the last armed timer, or NoTimer
    baseIntervalMs,     \* this.config.baseIntervalMs
    pending,            \* handles of the armed timers that have not fired and are not cleared
    delayOf,            \* the delay each timer was armed with
    awaiting,           \* timer handlers suspended in "await callback()"
    armed,              \* number of timers armed so far (the last handle handed out)
    currentCallback,    \* this.currentCallback
    jitterPct,          \* this.config.jitterRatio, in percent
    sched,              \* history: the last scheduler step
    \* ---- JitterScheduler without in-flight flag (core/scheduler.ts) ----
    plain               \* a scheduler of the older class, given the same calls and events

storeVars == <<targets, states, diskTargets, diskStates, logs, now, nextId, last, appended>>
loopVars  == <<pc, queue, cur, result, prevStatus, tickNo, pipe, calls, trans, faults, openRun, snapshot,
               hb>>
schedVars == <<isRunning, isCallbackRunning, timer, baseIntervalMs, pending, delayOf,
               awaiting, armed, currentCallback, jitterPct, sched, plain>>
vars == <<storeVars, loopVars, schedVars>>

-----------------------------------------------------------------------------
(* Bounds of the model *)

MaxTime == 2
MaxTargets == 2
MaxStoreCalls == 3
MaxAppends == 102
MaxTimers == 5
MaxTicks == 2
MaxFaults == 2
MaxClientLogs == 1
MaxStarts == 2
MaxElems == 2

(* Values *)

BookingStatus == {"OPEN", "CLOSED", "UNKNOWN"}
NullTime == 0 - 1          \* null in lastOpenAt
NullUrl == "null"          \* null in urlFinalLast
TargetIds == 1..MaxTargets
Urls == {"u1", "u2"}
\* A policy is its sequence of characters: "AB", "C", "ABC", "CA", "", "XB", "AA"
Policies == {<<"A", "B">>, <<"C">>, <<"A", "B", "C">>, <<"C", "A">>, <<>>, <<"X", "B">>,
             <<"A", "A">>}

-----------------------------------------------------------------------------
(* JsonStateManager *)

\* Outcomes of save(): both files written; writeJsonFile(TARGETS_FILE) throws;
\* writeJsonFile(STATES_FILE) throws after targets.json was written.
SaveOutcomes == {"ok", "failTargets", "failStates"}

\* A file of the data directory: absent, holding a complete JSON text, or
\* holding a prefix of one (writeFileSync truncates the file and then writes).
MissingFile == [kind |-> "missing", json |-> {}]

WholeFile(obj) == [kind |-> "whole", json |-> obj]

TornFile == [kind |-> "torn", json |-> {}]

\* Object.fromEntries(map.entries()), serialised: the object's key/value pairs
ToJson(map) == {<<k, map[k]>> : k \in DOMAIN map}

\* new Map(Object.entries(obj)) of a parsed object
FromJson(obj) == [k \in {p[1] : p \in obj} |-> (CHOOSE p \in obj : p[1] = k)[2]]

\* readJsonFile(path, defaultValue): a missing file and a text that does not
\* parse both give defaultValue
ReadJsonFile(file, defaultValue) == IF file.kind = "whole" THEN file.json ELSE defaultValue

WriteJsonFile(map) == WholeFile(ToJson(map))

\* constructor: the map loaded from a file
LoadMap(file) == FromJson(ReadJsonFile(file, {}))

SaveTargetsFile(o, mem, disk) == IF o = "failTargets" THEN disk ELSE WriteJsonFile(mem)

SaveStatesFileM1(o, mem, disk) == disk

SaveStatesFile(o, mem, disk) == IF o = "ok" THEN WriteJsonFile(mem) ELSE disk

Has(map, id) == id \in DOMAIN map

MapSet(map, id, v) == [k \in (DOMAIN map) \cup {id} |-> IF k = id THEN v ELSE map[k]]

MapDelete(map, id) == [k \in (DOMAIN map) \ {id} |-> map[k]]

\* addTarget: the TargetData and the initial StateData
NewTargetData(id, t, at) ==
    [id |-> id, name |-> t.name, urlInput |-> t.urlInput,
     urlFinalLast |-> t.urlFinalLast, enabled |-> t.enabled, policy |-> t.policy,
     createdAt |-> at, updatedAt |-> at]

InitialState(id, at) ==
    [targetId |-> id, lastStatus |-> "UNKNOWN", lastChangedAt |-> at,
     lastOpenAt |-> NullTime, consecutiveFailures |-> 0, updatedAt |-> at]

NewStateM1(id, status, at) ==
    [targetId |-> id, lastStatus |-> status, lastChangedAt |-> at,
     lastOpenAt |-> at, consecutiveFailures |-> 0, updatedAt |-> at]

\* setState, on the in-memory map
NewState(id, status, at) ==
    [targetId |-> id, lastStatus |-> status, lastChangedAt |-> at,
     lastOpenAt |-> IF status = "OPEN" THEN at ELSE NullTime,
     consecutiveFailures |-> 0, updatedAt |-> at]

ChangedStateM1(s, status, at) ==
    [s EXCEPT !.lastStatus = status, !.lastChangedAt = at, !.lastOpenAt = at,
              !.consecutiveFailures = 0, !.updatedAt = at]

ChangedStateM3(s, status, at) ==
    [s EXCEPT !.lastStatus = status, !.lastChangedAt = at,
              !.lastOpenAt = IF status = "OPEN" THEN at ELSE NullTime,
              !.consecutiveFailures = 0, !.updatedAt = at]

ChangedStateM2(s, status, at) ==
    [s EXCEPT !.lastStatus = status, !.lastChangedAt = at,
              !.lastOpenAt = IF status = "OPEN" THEN at ELSE @,
              !.consecutiveFailures = IF status = "UNKNOWN" THEN @ + 1 ELSE 0,
              !.updatedAt = at]

ChangedState(s, status, at) ==
    [s EXCEPT !.lastStatus = status,
              !.lastChangedAt = at,
              !.lastOpenAt = IF status = "OPEN" THEN at ELSE @,
              !.consecutiveFailures = 0,
              !.updatedAt = at]

SameStateM1(s, at) == [s EXCEPT !.lastChangedAt = at, !.updatedAt = at]

SameState(s, at) == [s EXCEPT !.updatedAt = at]

SetStateMem(st, id, status, at) ==
    IF ~Has(st, id)
    THEN MapSet(st, id, NewState(id, status, at))
    ELSE IF st[id].lastStatus # status
         THEN MapSet(st, id, ChangedState(st[id], status, at))
         ELSE MapSet(st, id, SameState(st[id], at))

\* updateTarget: fields of `updates` that are not undefined overwrite the stored ones
UpdatableFields == {"name", "urlInput", "urlFinalLast", "enabled", "policy"}

ApplyUpdates(data, updates, at) ==
    [f \in DOMAIN data |->
        IF f = "updatedAt" THEN at
        ELSE IF f \in (DOMAIN updates) \cap UpdatableFields THEN updates[f]
        ELSE data[f]]

\* deleteTarget's cleanup unlinks the files of LOGS_DIR whose name starts with
\* `${id}-`; addLog writes `${targetId}.json`.  A file name is <<owner, suffix>>.
LogFileName(id) == <<id, ".json">>

CleanupPrefix(id) == <<id, "-">>

StartsWith(name, prefix) == name[1] = prefix[1] /\ name[2] = prefix[2]

CleanupLogs(lg, id) ==
    [k \in DOMAIN lg |-> IF StartsWith(LogFileName(k), CleanupPrefix(id)) THEN <<>> ELSE lg[k]]

\* addLog
MaxLogs == 100

NoError == "null"

ErrorField(e) == IF e = "undefined" \/ e = "" THEN NoError ELSE e

LogEntry(id, log, at) ==
    [id |-> id, targetId |-> log.targetId, checkedAt |-> log.checkedAt,
     status |-> log.status, evidence |-> log.evidence,
     error |-> ErrorField(log.error), createdAt |-> at]

Unshift(entry, lg) == <<entry>> \o lg

Splice(lg, n) == IF Len(lg) > n THEN SubSeq(lg, 1, n) ELSE lg

TrimLogsM1(lg) == IF Len(lg) > MaxLogs + 1 THEN Splice(lg, MaxLogs) ELSE lg

TrimLogs(lg) == IF Len(lg) > MaxLogs THEN Splice(lg, MaxLogs) ELSE lg

\* readJsonFile(logFile, []): the stored array, or [] when the file cannot be read
ReadLogFile(lg, id, readOk) == IF readOk THEN lg[id] ELSE <<>>

AddLogFile(lg, entry, readOk) ==
    [lg EXCEPT ![entry.targetId] = TrimLogs(Unshift(entry, ReadLogFile(lg, entry.targetId, readOk)))]

\* getRecentLogs(targetId, limit)
GetRecentLogs(lg, id, limit) ==
    LET stored == ReadLogFile(lg, id, TRUE)
    IN SubSeq(stored, 1, IF limit < Len(stored) THEN limit ELSE Len(stored))

\* getTarget and getState: <<the record>>, or <<>> for null
GetTarget(tg, id) == IF Has(tg, id) THEN <<tg[id]>> ELSE <<>>

GetState(st, id) == IF Has(st, id) THEN <<st[id]>> ELSE <<>>

\* The history record of a store call: `pre` is <<the StateData of id before the
\* call>>, or <<>> when there was none; n counts the calls made so far; `had`
\* tells whether id was a Target before the call; `ret` is deleteTarget's result.
NoCall == [op |-> "none", id |-> 0, status |-> "UNKNOWN", at |-> 0, threw |-> FALSE,
           pre |-> <<>>, n |-> 0, had |-> FALSE, ret |-> FALSE]

Call(op, id, status, threw) ==
    [op |-> op, id |-> id, status |-> status, at |-> now, threw |-> threw,
     pre |-> IF Has(states, id) THEN <<states[id]>> ELSE <<>>, n |-> last.n + 1,
     had |-> Has(targets, id), ret |-> FALSE]

-----------------------------------------------------------------------------
(* Store calls, as made by a client of the StateManager interface *)

MoreCalls == last.n < MaxStoreCalls

NewTargets ==
    [name : {"n"}, urlInput : {"u1"}, urlFinalLast : {NullUrl}, enabled : {TRUE}, policy : {<<"A", "B">>}]

UpdateSets == {[urlFinalLast |-> "u1"], [enabled |-> FALSE, policy |-> <<"C">>]}

AddTarget(t, o) ==
    /\ MoreCalls
    /\ nextId <= MaxTargets
    /\ targets' = MapSet(targets, nextId, NewTargetData(nextId, t, now))
    /\ states' = MapSet(states, nextId, InitialState(nextId, now))
    /\ diskTargets' = SaveTargetsFile(o, targets', diskTargets)
    /\ diskStates' = SaveStatesFile(o, states', diskStates)
    /\ nextId' = nextId + 1
    /\ last' = Call("addTarget", nextId, "UNKNOWN", o # "ok")
    /\ UNCHANGED <<logs, now, appended>>
    /\ UNCHANGED <<loopVars, schedVars>>

UpdateTarget(id, updates, o) ==
    /\ MoreCalls
    /\ IF Has(targets, id)
       THEN /\ targets' = MapSet(targets, id, ApplyUpdates(targets[id], updates, now))
            /\ diskTargets' = SaveTargetsFile(o, targets', diskTargets)
            /\ diskStates' = SaveStatesFile(o, states, diskStates)
            /\ last' = Call("updateTarget", id, "UNKNOWN", o # "ok")
       ELSE /\ o = "ok"
            /\ last' = Call("updateTarget", id, "UNKNOWN", FALSE)
            /\ UNCHANGED <<targets, diskTargets, diskStates>>
    /\ UNCHANGED <<states, logs, now, nextId, appended>>
    /\ UNCHANGED <<loopVars, schedVars>>

DeleteTarget(id, o) ==
    /\ MoreCalls
    /\ targets' = MapDelete(targets, id)
    /\ states' = MapDelete(states, id)
    /\ diskTargets' = SaveTargetsFile(o, targets', diskTargets)
    /\ diskStates' = SaveStatesFile(o, states', diskStates)
    /\ logs' = IF o = "ok" THEN CleanupLogs(logs, id) ELSE logs
    /\ last' = [Call("deleteTarget", id, "UNKNOWN", o # "ok") EXCEPT !.ret = Has(targets, id)]
    /\ UNCHANGED <<now, nextId, appended>>
    /\ UNCHANGED <<loopVars, schedVars>>

SetState(id, status, o) ==
    /\ MoreCalls
    /\ states' = SetStateMem(states, id, status, now)
    /\ diskTargets' = SaveTargetsFile(o, targets, diskTargets)
    /\ diskStates' = SaveStatesFile(o, states', diskStates)
    /\ last' = Call("setState", id, status, o # "ok")
    /\ UNCHANGED <<targets, logs, now, nextId, appended>>
    /\ UNCHANGED <<loopVars, schedVars>>

\* new JsonStateManager(): the maps are read back from the two files
Restart ==
    /\ MoreCalls
    /\ targets' = LoadMap(diskTargets)
    /\ states' = LoadMap(diskStates)
    /\ last' = Call("restart", 0, "UNKNOWN", FALSE)
    /\ UNCHANGED <<diskTargets, diskStates, logs, now, nextId, appended>>
    /\ UNCHANGED <<loopVars, schedVars>>

AdvanceClock ==
    /\ now < MaxTime
    /\ now' = now + 1
    /\ UNCHANGED <<targets, states, diskTargets, diskStates, logs, nextId, last, appended>>
    /\ UNCHANGED <<loopVars, schedVars>>

\* addLog: the entry is stored only if writeJsonFile returns.  In the history
\* record, `pre` is <<the length of the log read>>, or <<>> when the file was unreadable.
AddLog(log, readOk, writeOk) ==
    /\ Len(appended[log.targetId]) < MaxAppends
    /\ LET entry == LogEntry(<<log.targetId, Len(appended[log.targetId]) + 1>>, log, now)
       IN /\ logs' = IF writeOk THEN AddLogFile(logs, entry, readOk) ELSE logs
          /\ appended' = IF writeOk
                         THEN [appended EXCEPT ![log.targetId] = Unshift(entry, @)]
                         ELSE appended
    /\ last' = [Call("addLog", log.targetId, log.status, ~writeOk) EXCEPT
                    !.n = last.n,
                    !.pre = IF readOk THEN <<Len(logs[log.targetId])>> ELSE <<>>]
    /\ UNCHANGED <<targets, states, diskTargets, diskStates, now, nextId>>
    /\ UNCHANGED <<loopVars, schedVars>>

\* addLog as called by a client of the store, a bounded number of times per target
ClientAddLog(id, status, writeOk) ==
    /\ Len(appended[id]) < MaxClientLogs
    /\ AddLog([targetId |-> id, checkedAt |-> now, status |-> status,
               evidence |-> <<>>, error |-> "undefined"], TRUE, writeOk)

\* The process dies inside the save() of setState(id, status), and a new process
\* constructs a JsonStateManager.  `point` says which writeFileSync was running,
\* `landed` how much of its text reached the file: nothing, a prefix, or all.
\* In the history record, `pre` is <<states stored before, states being written>>.
CrashPoints == {"targets", "states"}

Landed == {"none", "part", "all"}

FileAfterCrash(landed, mem, disk) ==
    CASE landed = "none" -> disk
      [] landed = "part" -> TornFile
      [] landed = "all" -> WriteJsonFile(mem)

CrashInSetState(id, status, point, landed) ==
    /\ MoreCalls
    /\ LET mem == SetStateMem(states, id, status, now)
       IN /\ diskTargets' = IF point = "targets"
                             THEN FileAfterCrash(landed, targets, diskTargets)
                             ELSE WriteJsonFile(targets)
          /\ diskStates' = IF point = "states"
                            THEN FileAfterCrash(landed, mem, diskStates)
                            ELSE diskStates
          /\ last' = [Call("crash", id, status, FALSE) EXCEPT
                          !.pre = <<LoadMap(diskStates), mem, LoadMap(diskTargets), targets>>]
    /\ targets' = LoadMap(diskTargets')
    /\ states' = LoadMap(diskStates')
    /\ UNCHANGED <<logs, now, nextId, appended>>
    /\ UNCHANGED <<loopVars, schedVars>>

StoreInit ==
    /\ targets = <<>>
    /\ states = <<>>
    /\ diskTargets = MissingFile
    /\ diskStates = MissingFile
    /\ logs = [t \in TargetIds |-> <<>>]
    /\ appended = [t \in TargetIds |-> <<>>]
    /\ now = 1
    /\ nextId = 1
    /\ last = NoCall

StoreNext ==
    \/ \E t \in NewTargets, o \in SaveOutcomes : AddTarget(t, o)
    \/ \E id \in TargetIds, u \in UpdateSets, o \in SaveOutcomes : UpdateTarget(id, u, o)
    \/ \E id \in TargetIds, o \in SaveOutcomes : DeleteTarget(id, o)
    \/ \E id \in TargetIds, s \in BookingStatus, o \in SaveOutcomes : SetState(id, s, o)
    \/ Restart
    \/ AdvanceClock


-----------------------------------------------------------------------------
(* PlaywrightChecker *)

CHECK_RULES ==
    << [name |-> "A", priority |-> 2], [name |-> "B", priority |-> 2],
       [name |-> "C", priority |-> 1] >>

\* policy.includes(name), for a one-character name
Includes(policy, name) == \E i \in DOMAIN policy : policy[i] = name

GetActiveRulesM1(policy) == CHECK_RULES

GetActiveRules(policy) ==
    IF policy = <<"C">>
    THEN SelectSeq(CHECK_RULES, LAMBDA r : r.name = "C")
    ELSE SelectSeq(CHECK_RULES, LAMBDA r : Includes(policy, r.name))

\* A rendered page: count[n] is the number of elements the selector of rule n
\* matches (n = A, B); elems are its elements, each a button, a link or another
\* tag, disabled or not, with a text whose textContent() call returns or
\* rejects; failing are the rules whose locator call rejects.
\* A text is its sequence of characters, each given by its class: "d" a digit,
\* ":" the colon, "w" another word character of \w, "o" any other character.
WordChar(c) == c \in {"d", "w"}

\* TIME_SLOT_PATTERN.test(text): \b \d{1,2} : \d{2} \b matches somewhere
TimeSlotMatch(text) ==
    \E i \in DOMAIN text : \E n \in {1, 2} :
        /\ i + n + 2 <= Len(text)
        /\ i = 1 \/ ~WordChar(text[i - 1])
        /\ \A k \in i..(i + n - 1) : text[k] = "d"
        /\ text[i + n] = ":"
        /\ text[i + n + 1] = "d" /\ text[i + n + 2] = "d"
        /\ i + n + 2 = Len(text) \/ ~WordChar(text[i + n + 3])

\* locator('button:not(:disabled), a:not([disabled])')
SelectedByC(el) == el.tag \in {"button", "a"} /\ ~el.disabled

CheckRuleCM1(page) ==
    \E i \in DOMAIN page.elems : page.elems[i].readable /\ TimeSlotMatch(page.elems[i].text)

CheckRuleC(page) ==
    \E i \in DOMAIN page.elems :
        /\ SelectedByC(page.elems[i])
        /\ page.elems[i].readable
        /\ TimeSlotMatch(page.elems[i].text)

ApplyRule(page, rule) ==
    IF rule.name \in page.failing THEN FALSE
    ELSE IF rule.name = "C" THEN CheckRuleC(page)
    ELSE page.count[rule.name] > 0

Names(rules) == [i \in DOMAIN rules |-> rules[i].name]

Evidence(page, policy) ==
    Names(SelectSeq(GetActiveRules(policy), LAMBDA r : ApplyRule(page, r)))

DetermineStatus(evidence, policy) ==
    IF Len(evidence) = 0 THEN "CLOSED"
    ELSE IF Includes(policy, "C") /\ (\E i \in DOMAIN evidence : evidence[i] = "C") THEN "OPEN"
    ELSE "OPEN"

\* check(target) with the catch of applyRule left out: a rule that raises ends the check
CheckResultM1(target, nav, page, url) ==
    IF nav = "ok" /\ ~(\E k \in DOMAIN GetActiveRules(target.policy) :
                          GetActiveRules(target.policy)[k].name \in page.failing)
    THEN [status |-> DetermineStatus(Evidence(page, target.policy), target.policy),
          evidence |-> Evidence(page, target.policy), finalUrl |-> url, error |-> "undefined"]
    ELSE [status |-> "UNKNOWN", evidence |-> <<>>, finalUrl |-> url, error |-> "rule"]

\* check(target) once getPage() has returned a page.  nav is "ok", or the message
\* of the error thrown by goto / waitForTimeout / the locator counts; url is page.url().
CheckResult(target, nav, page, url) ==
    IF nav = "ok"
    THEN [status |-> DetermineStatus(Evidence(page, target.policy), target.policy),
          evidence |-> Evidence(page, target.policy), finalUrl |-> url, error |-> "undefined"]
    ELSE [status |-> "UNKNOWN", evidence |-> <<>>, finalUrl |-> url, error |-> nav]

-----------------------------------------------------------------------------
(* JitterScheduler *)

NoTimer == 0

MinDelayMs == 1000

\* config values: baseIntervalMs, and jitterRatio in percent
Intervals == {500, 1501}

JitterRatios == {0, 50, 100}

\* Math.random() yields r / RandomDen for some r in 0..RandomDen-1
RandomDen == 3

Randoms == 0..(RandomDen - 1)

Max(a, b) == IF a > b THEN a ELSE b

\* calculateDelay: max(floor(base + (random*2 - 1) * base * jitterRatio), 1000)
CalculateDelayM1(base, pct, r) ==
    (base * 100 * RandomDen + base * pct * (2 * r - RandomDen)) \div (100 * RandomDen)

CalculateDelay(base, pct, r) ==
    Max((base * 100 * RandomDen + base * pct * (2 * r - RandomDen)) \div (100 * RandomDen),
        MinDelayMs)

\* The guard of the timer handler ("Prevent concurrent execution")
CallbackBusyM1 == FALSE

CallbackBusy == isCallbackRunning

\* The history record of a scheduler step: the timer concerned, isRunning and
\* whether an invocation was in flight before the step, whether the step began an
\* invocation of the routine, whether it armed a timer, the timers pending before,
\* the argument of updateInterval, and the number of invocations begun so far.
\* `reuse` is fixed at construction: when it is set, timers are not numbered
\* in the order of their arming and the invocations are not counted, so that a
\* run of the scheduler can go on without end; the handle given to a new timer
\* is then one that no pending timer and no suspended handler holds.
Step(op, h, invoked, rearmed) ==
    [op |-> op, h |-> h, running |-> isRunning, inflight |-> awaiting # {},
     invoked |-> invoked, rearmed |-> rearmed, pendingBefore |-> pending, arg |-> 0,
     runs |-> IF sched.reuse THEN 0 ELSE sched.runs + IF invoked THEN 1 ELSE 0,
     reuse |-> sched.reuse]

Handles == 1..MaxTimers

FreeHandles == Handles \ (pending \cup awaiting)

\* setTimeout can be called: always in the code; in the model as long as the
\* numbering of the timers has not reached its bound
CanArm == IF sched.reuse THEN FreeHandles # {} ELSE armed < MaxTimers

\* The handle setTimeout returns
NewHandle ==
    IF sched.reuse
    THEN CHOOSE h \in FreeHandles : \A g \in FreeHandles : h <= g
    ELSE armed + 1

\* scheduleNext with isRunning true: setTimeout(handler, calculateDelay()); the
\* handle is stored in this.timer.  `cleared` are the handles that stop being
\* pending in the same step, `base` is this.config.baseIntervalMs as calculateDelay reads it.
ArmTimer(cleared, base, r) ==
    /\ armed' = IF sched.reuse THEN armed ELSE armed + 1
    /\ timer' = NewHandle
    /\ pending' = (pending \ cleared) \cup {NewHandle}
    /\ delayOf' = [h \in (pending \ cleared) \cup {NewHandle} |->
                      IF h = NewHandle THEN CalculateDelay(base, jitterPct, r)
                      ELSE delayOf[h]]

ClearedByM1(h) == {}

ClearedBy(h) == IF h = NoTimer THEN {} ELSE {h}

Forget(hs) ==
    /\ pending' = pending \ hs
    /\ delayOf' = [h \in pending \ hs |-> delayOf[h]]

\* The scheduler of core/scheduler.ts, constructed with the same configuration
\* (`on`) or not constructed.  It receives every call and event the scheduler
\* above receives; its fields are those of the class, its timers and suspended
\* handlers, the number of timers it armed, and whether its last step invoked
\* the routine or armed a timer.
NoPlain ==
    [on |-> FALSE, isRunning |-> FALSE, timer |-> NoTimer, pending |-> {}, delayOf |-> <<>>,
     awaiting |-> {}, armed |-> 0, invoked |-> FALSE, rearmed |-> FALSE]

\* scheduleNext
PlainScheduleNext(p, r) ==
    IF ~p.isRunning THEN [p EXCEPT !.invoked = FALSE, !.rearmed = FALSE]
    ELSE [p EXCEPT !.armed = @ + 1,
                   !.timer = p.armed + 1,
                   !.pending = @ \cup {p.armed + 1},
                   !.delayOf = [h \in p.pending \cup {p.armed + 1} |->
                                   IF h = p.armed + 1
                                   THEN CalculateDelay(baseIntervalMs, jitterPct, r)
                                   ELSE p.delayOf[h]],
                   !.invoked = FALSE, !.rearmed = TRUE]

PlainStart(p, r) ==
    IF p.on THEN PlainScheduleNext([p EXCEPT !.isRunning = TRUE], r) ELSE p

PlainStop(p) ==
    IF p.on
    THEN [p EXCEPT !.isRunning = FALSE, !.timer = NoTimer,
                   !.pending = @ \ ClearedBy(p.timer),
                   !.delayOf = [h \in p.pending \ ClearedBy(p.timer) |-> p.delayOf[h]],
                   !.invoked = FALSE, !.rearmed = FALSE]
    ELSE p

\* The timer handler up to "await callback()": the routine is invoked
PlainFire(p, h) ==
    IF p.on /\ h \in p.pending
    THEN [p EXCEPT !.pending = @ \ {h},
                   !.delayOf = [g \in p.pending \ {h} |-> p.delayOf[g]],
                   !.awaiting = @ \cup {h}, !.invoked = TRUE, !.rearmed = FALSE]
    ELSE p

\* The timer handler from the settling of callback() on
PlainSettle(p, h, r) ==
    IF p.on /\ h \in p.awaiting
    THEN PlainScheduleNext([p EXCEPT !.awaiting = @ \ {h}], r)
    ELSE p

start(r) ==
    /\ CanArm
    /\ isRunning' = TRUE
    /\ currentCallback' = "routine"
    /\ ArmTimer({}, baseIntervalMs, r)
    /\ sched' = Step("start", NewHandle, FALSE, TRUE)
    /\ plain' = PlainStart(plain, r)
    /\ UNCHANGED <<isCallbackRunning, baseIntervalMs, jitterPct, awaiting>>
    /\ UNCHANGED <<storeVars, loopVars>>

stop ==
    /\ isRunning' = FALSE
    /\ Forget(ClearedBy(timer))
    /\ timer' = NoTimer
    /\ sched' = Step("stop", timer, FALSE, FALSE)
    /\ plain' = PlainStop(plain)
    /\ UNCHANGED <<isCallbackRunning, baseIntervalMs, jitterPct, awaiting, armed, currentCallback>>
    /\ UNCHANGED <<storeVars, loopVars>>

updateInterval(intervalMs, r) ==
    /\ baseIntervalMs' = intervalMs
    /\ IF isRunning /\ timer # NoTimer /\ ~isCallbackRunning
       THEN IF currentCallback # "null"
            THEN /\ CanArm
                 /\ ArmTimer(ClearedBy(timer), intervalMs, r)
                 /\ sched' = [Step("updateInterval", timer, FALSE, TRUE) EXCEPT !.arg = intervalMs]
            ELSE /\ Forget(ClearedBy(timer))
                 /\ timer' = NoTimer
                 /\ sched' = [Step("updateInterval", timer, FALSE, FALSE) EXCEPT !.arg = intervalMs]
                 /\ UNCHANGED armed
       ELSE /\ r = 0
            /\ sched' = [Step("updateInterval", NoTimer, FALSE, FALSE) EXCEPT !.arg = intervalMs]
            /\ UNCHANGED <<timer, pending, delayOf, armed>>
    /\ UNCHANGED <<isRunning, isCallbackRunning, jitterPct, awaiting, currentCallback, plain>>
    /\ UNCHANGED <<storeVars, loopVars>>

\* The timer handler up to "await callback()"
TimerFire(h, r) ==
    /\ h \in pending
    /\ plain' = PlainFire(plain, h)
    /\ IF CallbackBusy
       THEN \* "Callback already running, skipping duplicate execution"
            /\ IF isRunning
               THEN /\ CanArm
                    /\ ArmTimer({h}, baseIntervalMs, r)
                    /\ sched' = Step("fire", h, FALSE, TRUE)
               ELSE /\ r = 0
                    /\ Forget({h})
                    /\ sched' = Step("fire", h, FALSE, FALSE)
                    /\ UNCHANGED <<timer, armed>>
            /\ UNCHANGED <<isCallbackRunning, awaiting>>
       ELSE /\ r = 0
            /\ isCallbackRunning' = TRUE
            /\ awaiting' = awaiting \cup {h}
            /\ Forget({h})
            /\ sched' = Step("fire", h, TRUE, FALSE)
            /\ UNCHANGED <<timer, armed>>
    /\ UNCHANGED <<isRunning, baseIntervalMs, jitterPct, currentCallback>>
    /\ UNCHANGED <<storeVars, loopVars>>

\* catch (error) around "await callback()": whether the handler goes on to
\* "Schedule next run" once the callback has settled
CaughtM1(rejected) == ~rejected

Caught(rejected) == TRUE

\* The timer handler from the settling of callback() on: catch, finally, and
\* "Schedule next run"
CallbackSettle(h, rejected, r) ==
    /\ h \in awaiting
    /\ plain' = PlainSettle(plain, h, r)
    /\ awaiting' = awaiting \ {h}
    /\ isCallbackRunning' = FALSE
    /\ IF Caught(rejected) /\ isRunning
       THEN /\ CanArm
            /\ ArmTimer({}, baseIntervalMs, r)
            /\ sched' = Step(IF rejected THEN "reject" ELSE "resolve", h, FALSE, TRUE)
       ELSE /\ r = 0
            /\ sched' = Step(IF rejected THEN "reject" ELSE "resolve", h, FALSE, FALSE)
            /\ UNCHANGED <<timer, pending, delayOf, armed>>
    /\ UNCHANGED <<isRunning, baseIntervalMs, jitterPct, currentCallback>>
    /\ UNCHANGED <<storeVars, loopVars>>

SchedNext ==
    \/ \E r \in Randoms : start(r)
    \/ stop
    \/ \E n \in Intervals, r \in Randoms : updateInterval(n, r)
    \/ \E h \in Handles, r \in Randoms : TimerFire(h, r)
    \/ \E h \in Handles, rejected \in BOOLEAN, r \in Randoms : CallbackSettle(h, rejected, r)

-----------------------------------------------------------------------------
(* Initial values of the parts a specification does not exercise *)

NoTarget == [id |-> 0, name |-> "", urlInput |-> "", urlFinalLast |-> NullUrl,
             enabled |-> FALSE, policy |-> <<>>]

NoPage == [count |-> [A |-> 0, B |-> 0], elems |-> <<>>, failing |-> {}]

NoResult == [status |-> "UNKNOWN", evidence |-> <<>>, finalUrl |-> "", error |-> "undefined"]

\* The history record of a tick and of its running iteration.
\*   enabledAtStart, startStates : the enabled target ids and this.states when the tick started
\*   visited   : the targets whose iteration has ended in this tick
\*   thrown    : the <<target, step>> pairs of the exceptions thrown in this tick
\*   outcome   : "resolved" / "rejected" once the promise of checkLoop has settled
\*   id        : the target of the running (or last) iteration
\*   renderFailed : getPage() or the navigation failed in this iteration
\*   checked   : check() returned a result
\*   threwAt   : the step of this iteration that threw, or "none"
\*   logged    : addLog stored the entry of this iteration
\*   sendCalled, sendOk : notifier.send was called / resolved in this iteration
\*   stateSet  : setState was called in this iteration
\*   sent      : <<the message handed to notifier.send in this iteration>>, or <<>>
\*   finished  : the iteration has ended (normally or in its catch block)
NoPipe ==
    [enabledAtStart |-> {}, startStates |-> <<>>, visited |-> {}, thrown |-> {},
     outcome |-> "none",
     id |-> 0, renderFailed |-> FALSE, checked |-> FALSE, threwAt |-> "none",
     logged |-> FALSE, sendCalled |-> FALSE, sendOk |-> FALSE, stateSet |-> FALSE,
     finished |-> FALSE, sent |-> <<>>]

\* The heartbeat of main.  clock is the wall clock in hours since the epoch
\* (UTC) and tz the offset of the process's time zone from UTC in hours; file
\* is the lastSentDate of data/heartbeat.json, NoDate when there is no file.
\* History: outcome of the heartbeat step of the last tick, and the POSTs made
\* (attempts) and answered with a 2xx status (delivered), each as
\* <<date in Korea, hour in Korea, tick>>.
NoDate == 0 - 1

HEARTBEAT_HOUR == 7

KoreaTime(t) == t + 9

GetTodayDate(t) == KoreaTime(t) \div 24

\* Date.getHours() gives the hour in the time zone of the process
GetCurrentHour(t, tz) == (KoreaTime(t) + tz) % 24

GetLastHeartbeatDate(file, readOk) == IF readOk THEN file ELSE NoDate

FetchOutcomes == {"ok", "status", "rejected"}

SendHeartbeatIfNeeded(h, tick, readOk, fetched, saved) ==
    LET currentHour == GetCurrentHour(h.clock, h.tz)
        today == GetTodayDate(h.clock)
        lastSent == GetLastHeartbeatDate(h.file, readOk)
        post == <<today, KoreaTime(h.clock) % 24, tick>>
    IN IF currentHour = HEARTBEAT_HOUR /\ lastSent # today /\ h.topic
       THEN [h EXCEPT !.attempts = @ \cup {post},
                      !.delivered = IF fetched = "ok" THEN @ \cup {post} ELSE @,
                      !.file = IF fetched = "ok" /\ saved THEN today ELSE @,
                      !.outcome = IF fetched = "ok" THEN "sent" ELSE "failed"]
       ELSE [h EXCEPT !.outcome = "skipped"]

\* The instants at which ticks are observed: 06:00, 07:00 and 22:00 of one day
\* in Korea and 07:00 of the next
ClockTimes == {21, 22, 37, 46}

LoopInitWith(topics, zones) ==
    /\ hb \in [topic : topics, tz : zones, clock : {21}, file : {NoDate},
                outcome : {"none"}, attempts : {{}}, delivered : {{}}]
    /\ pc = "idle"
    /\ queue = <<>>
    /\ cur = NoTarget
    /\ result = NoResult
    /\ prevStatus = "UNKNOWN"
    /\ tickNo = 0
    /\ pipe = NoPipe
    /\ calls = [t \in TargetIds |-> 0]
    /\ trans = [t \in TargetIds |-> 0]
    /\ faults = 0
    /\ openRun = [t \in TargetIds |-> 0]
    /\ snapshot = NoPage

\* The configuration without a heartbeat topic, on a host that runs in UTC
LoopInit == LoopInitWith({FALSE}, {0})

NoStep == [op |-> "none", h |-> NoTimer, running |-> FALSE, inflight |-> FALSE,
           invoked |-> FALSE, rearmed |-> FALSE, pendingBefore |-> {}, arg |-> 0, runs |-> 0,
           reuse |-> FALSE]

\* new JitterScheduler(config)
SchedInitWith(bases, pcts, reuse, paired) ==
    /\ isRunning = FALSE
    /\ isCallbackRunning = FALSE
    /\ timer = NoTimer
    /\ currentCallback = "null"
    /\ baseIntervalMs \in bases
    /\ jitterPct \in pcts
    /\ pending = {}
    /\ delayOf = <<>>
    /\ awaiting = {}
    /\ armed = 0
    /\ sched = [NoStep EXCEPT !.reuse = reuse]
    /\ plain = [NoPlain EXCEPT !.on = paired]

SchedInit == SchedInitWith(Intervals, JitterRatios, FALSE, FALSE)

\* The scheduler configuration of the specifications that do not run the scheduler
SchedIdle == SchedInitWith({2000}, {0}, FALSE, FALSE)

\* The log of one target, driven past the retention limit.  The status logged
\* alternates with the number of entries stored, so that entries differ.
LogTarget == CHOOSE id \in TargetIds : \A other \in TargetIds : id <= other

LogInput ==
    [targetId |-> LogTarget, checkedAt |-> now,
     status |-> IF Len(appended[LogTarget]) % 2 = 0 THEN "CLOSED" ELSE "UNKNOWN",
     evidence |-> <<>>,
     error |-> IF Len(appended[LogTarget]) % 2 = 0 THEN "undefined" ELSE "timeout"]

LogNext == \E readOk \in BOOLEAN, writeOk \in BOOLEAN : AddLog(LogInput, readOk, writeOk)

\* The store as constructed on empty data, the loop and the scheduler at rest
Init == StoreInit /\ LoopInit /\ SchedIdle

SpecLog == Init /\ [][LogNext]_vars


-----------------------------------------------------------------------------
(* checkLoop: one tick of the orchestrator *)

\* listTargets(): the values of this.targets in insertion order, which is the
\* order of the identifiers
ListTargets(tg) ==
    LET ids == SelectSeq([i \in 1..MaxTargets |-> i], LAMBDA i : Has(tg, i))
    IN [k \in DOMAIN ids |->
          [id |-> tg[ids[k]].id, name |-> tg[ids[k]].name, urlInput |-> tg[ids[k]].urlInput,
           urlFinalLast |-> tg[ids[k]].urlFinalLast, enabled |-> tg[ids[k]].enabled,
           policy |-> tg[ids[k]].policy]]

EnabledTargetsM1(tg) == ListTargets(tg)

EnabledTargets(tg) == SelectSeq(ListTargets(tg), LAMBDA t : t.enabled)

\* prevState?.lastStatus || 'UNKNOWN'
PrevStatusM1(st, id) == "UNKNOWN"

PrevStatus(st, id) == IF Has(st, id) THEN st[id].lastStatus ELSE "UNKNOWN"

\* The test that guards notifier.send
ShouldNotifyM1(status, prev) == status = "OPEN" /\ prev = "CLOSED"

ShouldNotify(status, prev) == status = "OPEN" /\ prev # "OPEN"

\* The steps of an iteration that lie inside its try block
CatchesM1(step) == step \in {"check", "addLog", "updateTarget", "getState", "setState"}

Catches(step) == step \in {"check", "addLog", "updateTarget", "getState", "send", "setState"}

\* The pages and navigation outcomes a tick is run against
LoopPages ==
    { [count |-> [A |-> 0, B |-> 0], elems |-> <<>>, failing |-> {}],
      [count |-> [A |-> 1, B |-> 0], elems |-> <<>>, failing |-> {}] }

NavOutcomes == {"ok", "timeout"}

OkUrls == {"u2"}

FailUrls == {"about:blank"}

\* An exception thrown by `step` of the running iteration: its catch block ends
\* the iteration, or, outside the try block, the exception ends checkLoop.
Throw(step, p) ==
    /\ faults < MaxFaults
    /\ faults' = faults + 1
    /\ IF Catches(step)
       THEN /\ pc' = "next"
            /\ pipe' = [p EXCEPT !.threwAt = step, !.finished = TRUE,
                                 !.visited = @ \cup {cur.id},
                                 !.thrown = @ \cup {<<cur.id, step>>}]
            /\ UNCHANGED queue
       ELSE /\ pc' = "idle"
            /\ pipe' = [p EXCEPT !.threwAt = step, !.outcome = "rejected",
                                 !.thrown = @ \cup {<<cur.id, step>>}]
            /\ queue' = <<>>

\* checkLoop up to the for loop.  A tick starts at least MinDelayMs after the
\* one before it: the clock is stepped once per tick.
CheckLoopBegins ==
    /\ pc = "idle"
    /\ tickNo' = tickNo + 1
    /\ now' = now + 1
    /\ queue' = EnabledTargets(targets)
    /\ pipe' = [NoPipe EXCEPT
                  !.enabledAtStart = {queue'[k].id : k \in DOMAIN queue'},
                  !.startStates = states,
                  !.outcome = IF queue' = <<>> THEN "resolved" ELSE "none"]
    /\ pc' = IF queue' = <<>> THEN "idle" ELSE "next"
    /\ \E readOk \in BOOLEAN, fetched \in FetchOutcomes, saved \in BOOLEAN :
          hb' = SendHeartbeatIfNeeded(hb, tickNo', readOk, fetched, saved)
    /\ UNCHANGED <<cur, result, prevStatus, calls, trans, faults, openRun, snapshot>>
    /\ UNCHANGED <<targets, states, diskTargets, diskStates, logs, nextId, last, appended>>
    /\ UNCHANGED schedVars

LoopStart == tickNo < MaxTicks /\ CheckLoopBegins

\* The head of the for loop: the next enabled target, or the end of the tick
LoopNext ==
    /\ pc = "next"
    /\ IF queue = <<>>
       THEN /\ pc' = "idle"
            /\ pipe' = [pipe EXCEPT !.outcome = "resolved"]
            /\ UNCHANGED <<queue, cur>>
       ELSE /\ pc' = "check"
            /\ cur' = Head(queue)
            /\ queue' = Tail(queue)
            /\ pipe' = [pipe EXCEPT !.id = Head(queue).id, !.renderFailed = FALSE,
                                    !.checked = FALSE, !.threwAt = "none", !.logged = FALSE,
                                    !.sendCalled = FALSE, !.sendOk = FALSE,
                                    !.stateSet = FALSE, !.finished = FALSE,
                                    !.sent = <<>>]
    /\ UNCHANGED <<result, prevStatus, tickNo, calls, trans, faults, openRun, snapshot, hb>>
    /\ UNCHANGED <<storeVars, schedVars>>

\* await checker.check(target)
LoopCheck(pageOk, nav, page, url) ==
    /\ pc = "check"
    /\ IF pageOk
       THEN /\ url \in IF nav = "ok" THEN OkUrls ELSE FailUrls
            /\ result' = CheckResult(cur, nav, page, url)
            /\ openRun' = IF result'.status = "OPEN" THEN openRun
                           ELSE [openRun EXCEPT ![cur.id] = 0]
            /\ snapshot' = IF nav = "ok" THEN page ELSE snapshot
            /\ pc' = "addLog"
            /\ pipe' = [pipe EXCEPT !.checked = TRUE, !.renderFailed = nav # "ok"]
            /\ UNCHANGED <<queue, faults>>
       ELSE /\ nav = "ok" /\ url \in OkUrls /\ page \in {CHOOSE q \in LoopPages : TRUE}
            /\ Throw("check", [pipe EXCEPT !.renderFailed = TRUE])
            /\ openRun' = [openRun EXCEPT ![cur.id] = 0]
            /\ UNCHANGED <<result, snapshot>>
    /\ UNCHANGED <<cur, prevStatus, tickNo, calls, trans, hb>>
    /\ UNCHANGED <<storeVars, schedVars>>

\* await stateManager.addLog({...}), and the comparison of the final URL
LoopAddLog(writeOk) ==
    /\ pc = "addLog"
    /\ LET log == [targetId |-> cur.id, checkedAt |-> now, status |-> result.status,
                   evidence |-> result.evidence, error |-> result.error]
           entry == LogEntry(<<cur.id, Len(appended[cur.id]) + 1>>, log, now)
       IN IF writeOk
          THEN /\ logs' = AddLogFile(logs, entry, TRUE)
               /\ appended' = [appended EXCEPT ![cur.id] = Unshift(entry, @)]
               /\ pipe' = [pipe EXCEPT !.logged = TRUE]
               /\ pc' = IF result.finalUrl # cur.urlFinalLast THEN "updateTarget" ELSE "getState"
               /\ UNCHANGED <<queue, faults>>
          ELSE /\ Throw("addLog", pipe)
               /\ UNCHANGED <<logs, appended>>
    /\ UNCHANGED <<cur, result, prevStatus, tickNo, calls, trans, openRun, snapshot, hb>>
    /\ UNCHANGED <<targets, states, diskTargets, diskStates, now, nextId, last>>
    /\ UNCHANGED schedVars

\* await stateManager.updateTarget(target.id, { urlFinalLast: result.finalUrl })
LoopUpdateTarget(o) ==
    /\ pc = "updateTarget"
    /\ IF Has(targets, cur.id)
       THEN /\ targets' = MapSet(targets, cur.id,
                                 ApplyUpdates(targets[cur.id], [urlFinalLast |-> result.finalUrl], now))
            /\ diskTargets' = SaveTargetsFile(o, targets', diskTargets)
            /\ diskStates' = SaveStatesFile(o, states, diskStates)
       ELSE /\ o = "ok"
            /\ UNCHANGED <<targets, diskTargets, diskStates>>
    /\ IF o = "ok"
       THEN /\ pc' = "getState"
            /\ UNCHANGED <<pipe, queue, faults>>
       ELSE Throw("updateTarget", pipe)
    /\ UNCHANGED <<cur, result, prevStatus, tickNo, calls, trans, openRun, snapshot, hb>>
    /\ UNCHANGED <<states, logs, now, nextId, last, appended>>
    /\ UNCHANGED schedVars

\* await stateManager.getState(target.id), and the test for a change to OPEN
LoopGetState ==
    /\ pc = "getState"
    /\ prevStatus' = PrevStatus(states, cur.id)
    /\ pc' = IF ShouldNotify(result.status, prevStatus') THEN "send" ELSE "setState"
    /\ UNCHANGED <<queue, cur, result, tickNo, pipe, calls, trans, faults, openRun, snapshot, hb>>
    /\ UNCHANGED <<storeVars, schedVars>>

\* The message of a change to OPEN
NotificationM1(target) == [title |-> target.name, clickUrl |-> target.urlFinalLast]

Notification(target) == [title |-> target.name, clickUrl |-> target.urlInput]

\* await notifier.send({...}): NtfyNotifier.send logs a failed delivery and throws it on
LoopSend(delivered) ==
    /\ pc = "send"
    /\ calls' = [calls EXCEPT ![cur.id] = @ + 1]
    /\ openRun' = [openRun EXCEPT ![cur.id] = @ + 1]
    /\ UNCHANGED <<snapshot, hb>>
    /\ IF delivered
       THEN /\ pc' = "setState"
            /\ pipe' = [pipe EXCEPT !.sendCalled = TRUE, !.sendOk = delivered,
                                    !.sent = <<Notification(cur)>>]
            /\ UNCHANGED <<queue, faults>>
       ELSE Throw("send", [pipe EXCEPT !.sendCalled = TRUE, !.sent = <<Notification(cur)>>])
    /\ UNCHANGED <<cur, result, prevStatus, tickNo, trans>>
    /\ UNCHANGED <<storeVars, schedVars>>

\* await stateManager.setState(target.id, result.status), in either branch
LoopSetState(o) ==
    /\ pc = "setState"
    /\ states' = SetStateMem(states, cur.id, result.status, now)
    /\ diskTargets' = SaveTargetsFile(o, targets, diskTargets)
    /\ diskStates' = SaveStatesFile(o, states', diskStates)
    /\ trans' = IF result.status = "OPEN" /\ PrevStatus(states, cur.id) # "OPEN"
                THEN [trans EXCEPT ![cur.id] = @ + 1]
                ELSE trans
    /\ IF o = "ok"
       THEN /\ pc' = "next"
            /\ pipe' = [pipe EXCEPT !.stateSet = TRUE, !.finished = TRUE,
                                    !.visited = @ \cup {cur.id}]
            /\ UNCHANGED <<queue, faults>>
       ELSE Throw("setState", [pipe EXCEPT !.stateSet = TRUE])
    /\ UNCHANGED <<cur, result, prevStatus, tickNo, calls, openRun, snapshot, hb>>
    /\ UNCHANGED <<targets, logs, now, nextId, last, appended>>
    /\ UNCHANGED schedVars

\* The targets of the configuration file (config.targets)
ConfiguredTargets == {1, 2}

\* The store when the scheduler is started: main has added the configured targets,
\* of which the last may be disabled; the TransitionState of the first is missing
\* when states.json was written without it (save() failed after targets.json in
\* addTarget) and the JsonStateManager was constructed anew.
LoopStoreInit ==
    \E en \in {ConfiguredTargets, ConfiguredTargets \ {2}}, lost \in {{}, {1}} :
        /\ targets = [id \in ConfiguredTargets |->
                         NewTargetData(id, [name |-> "n", urlInput |-> "u1",
                                            urlFinalLast |-> NullUrl, enabled |-> id \in en,
                                            policy |-> <<"A", "B">>], 1)]
        /\ states = [id \in ConfiguredTargets \ lost |-> InitialState(id, 1)]
        /\ diskTargets = WriteJsonFile(targets)
        /\ diskStates = WriteJsonFile(states)
        /\ logs = [t \in TargetIds |-> <<>>]
        /\ appended = [t \in TargetIds |-> <<>>]
        /\ now = 1
        /\ nextId = MaxTargets + 1
        /\ last = NoCall

LoopNextStep ==
    \/ LoopStart
    \/ LoopNext
    \/ \E pageOk \in BOOLEAN, nav \in NavOutcomes, page \in LoopPages, url \in OkUrls \cup FailUrls :
          LoopCheck(pageOk, nav, page, url)
    \/ \E writeOk \in BOOLEAN : LoopAddLog(writeOk)
    \/ \E o \in SaveOutcomes : LoopUpdateTarget(o)
    \/ LoopGetState
    \/ \E delivered \in BOOLEAN : LoopSend(delivered)
    \/ \E o \in SaveOutcomes : LoopSetState(o)

InitLoop == LoopStoreInit /\ LoopInit /\ SchedIdle

InitSched == StoreInit /\ LoopInit /\ SchedInit

\* The store with its log files, and processes that die while saving
FilesNext ==
    \/ \E t \in NewTargets, o \in SaveOutcomes : AddTarget(t, o)
    \/ \E id \in TargetIds, o \in SaveOutcomes : DeleteTarget(id, o)
    \/ \E id \in TargetIds, s \in BookingStatus, o \in SaveOutcomes : SetState(id, s, o)
    \/ \E id \in TargetIds, w \in BOOLEAN : ClientAddLog(id, "CLOSED", w)
    \/ \E id \in TargetIds, s \in BookingStatus, p \in CrashPoints, l \in Landed :
            CrashInSetState(id, s, p, l)

SpecFiles == Init /\ [][FilesNext]_vars

\* The checker applied to pages: texts "10:30", "a1:30", "1:305", " 9:30 " and
\* one without digits, on buttons, links and other tags
Texts ==
    { <<"d", "d", ":", "d", "d">>, <<"w", "d", ":", "d", "d">>, <<"d", ":", "d", "d", "d">>,
      <<"o", "d", ":", "d", "d", "o">>, <<"o", "o">> }

El(tag, disabled, readable, text) ==
    [tag |-> tag, disabled |-> disabled, readable |-> readable, text |-> text]

Elements ==
    { El("button", FALSE, TRUE, <<"d", "d", ":", "d", "d">>),
      El("button", TRUE, TRUE, <<"d", "d", ":", "d", "d">>),
      El("a", FALSE, TRUE, <<"o", "o">>),
      El("a", FALSE, TRUE, <<"w", "d", ":", "d", "d">>),
      El("span", FALSE, TRUE, <<"d", "d", ":", "d", "d">>),
      El("a", FALSE, FALSE, <<"d", "d", ":", "d", "d">>),
      El("a", FALSE, TRUE, <<"o", "d", ":", "d", "d", "o">>),
      El("button", FALSE, TRUE, <<"d", ":", "d", "d", "d">>) }

ElemSeqs == UNION {[1..n -> Elements] : n \in 0..MaxElems}

CheckPages ==
    [count : [A : {0, 1}, B : {0, 2}], elems : ElemSeqs,
     failing : {{}, {"A"}, {"C"}, {"A", "B", "C"}}]

\* One call of checker.check(target) for a target of the given policy, on the given page
CheckPage(policy, nav, page, url) ==
    /\ cur' = [NoTarget EXCEPT !.policy = policy]
    /\ snapshot' = page
    /\ result' = CheckResult(cur', nav, page, url)
    /\ UNCHANGED <<pc, queue, prevStatus, tickNo, pipe, calls, trans, faults, openRun, hb>>
    /\ UNCHANGED <<storeVars, schedVars>>

CheckNext ==
    /\ result = NoResult
    /\ \E policy \in Policies, nav \in NavOutcomes, page \in CheckPages :
           \E url \in IF nav = "ok" THEN OkUrls ELSE FailUrls :
               CheckPage(policy, nav, page, url)

SpecCheck == InitLoop /\ [][CheckNext]_vars

\* checkLoop over a day and the next morning, every store call and every send
\* of a target notification succeeding, with and without a heartbeat topic, on
\* hosts running in UTC and in Korean time
MaxHbTicks == 4

HourPasses ==
    /\ pc = "idle"
    /\ \E t \in ClockTimes :
          /\ t > hb.clock
          /\ \A u \in ClockTimes : u > hb.clock => t <= u
          /\ hb' = [hb EXCEPT !.clock = t]
    /\ UNCHANGED <<pc, queue, cur, result, prevStatus, tickNo, pipe, calls, trans, faults,
                   openRun, snapshot>>
    /\ UNCHANGED <<storeVars, schedVars>>

HbLoopStart == tickNo < MaxHbTicks /\ CheckLoopBegins

HbLoopStep ==
    \/ LoopNext
    \/ \E url \in OkUrls : LoopCheck(TRUE, "ok", CHOOSE q \in LoopPages : q.count.A > 0, url)
    \/ LoopAddLog(TRUE)
    \/ LoopUpdateTarget("ok")
    \/ LoopGetState
    \/ LoopSend(TRUE)
    \/ LoopSetState("ok")

HbNext == HourPasses \/ HbLoopStart \/ HbLoopStep

InitHeartbeat == LoopStoreInit /\ LoopInitWith(BOOLEAN, {0, 9}) /\ SchedIdle

SpecHeartbeat == InitHeartbeat /\ [][HbNext]_vars

\* main: scheduler.start(checkLoop).  Every invocation the scheduler begins runs
\* one checkLoop, which starts after the invocation began (checkLoop first
\* awaits the heartbeat) and whose end settles the invocation.  The environment
\* raises no exception here; the scheduler may be started more than once.
MainStart ==
    /\ armed < MaxStarts
    /\ start(0)

MainTimerFire(h) == TimerFire(h, 0)

MainLoopStart ==
    /\ awaiting # {}
    /\ tickNo < sched.runs
    /\ LoopStart

MainLoopStep ==
    /\ awaiting # {}
    /\ \/ LoopNext
       \/ \E page \in LoopPages, url \in OkUrls : LoopCheck(TRUE, "ok", page, url)
       \/ LoopAddLog(TRUE)
       \/ LoopUpdateTarget("ok")
       \/ LoopGetState
       \/ LoopSend(TRUE)
       \/ LoopSetState("ok")

MainSettle(h) ==
    /\ pc = "idle"
    /\ tickNo = sched.runs
    /\ pipe.outcome # "none"
    /\ CallbackSettle(h, pipe.outcome = "rejected", 0)

MainNext ==
    \/ MainStart
    \/ \E h \in Handles : MainTimerFire(h)
    \/ MainLoopStart
    \/ MainLoopStep
    \/ \E h \in Handles : MainSettle(h)

SpecMain == InitLoop /\ [][MainNext]_vars

Spec == InitLoop /\ [][LoopNextStep]_vars

SpecSched == InitSched /\ [][SchedNext]_vars

\* The two schedulers side by side: start() is called once, updateInterval never
InitPair == StoreInit /\ LoopInit /\ SchedInitWith(Intervals, JitterRatios, FALSE, TRUE)

PairStart(r) == currentCallback = "null" /\ start(r)

PairNext ==
    \/ \E r \in Randoms : PairStart(r)
    \/ stop
    \/ \E h \in Handles, r \in Randoms : TimerFire(h, r)
    \/ \E h \in Handles, rejected \in BOOLEAN, r \in Randoms : CallbackSettle(h, rejected, r)

SpecPair == InitPair /\ [][PairNext]_vars

\* The scheduler started once and never stopped, running without end: every
\* timer that stays armed fires, and every invocation of the routine settles.
LiveIntervals == {500, 1501, 3000}

InitLive == StoreInit /\ LoopInit /\ SchedInitWith({500}, JitterRatios, TRUE, FALSE)

LiveStart(r) == ~isRunning /\ start(r)

LiveNext ==
    \/ \E r \in Randoms : LiveStart(r)
    \/ \E n \in LiveIntervals, r \in Randoms : updateInterval(n, r)
    \/ \E h \in Handles, r \in Randoms : TimerFire(h, r)
    \/ \E h \in Handles, rejected \in BOOLEAN, r \in Randoms : CallbackSettle(h, rejected, r)

LiveFairness ==
    \A h \in Handles :
        /\ WF_vars(\E r \in Randoms : TimerFire(h, r))
        /\ WF_vars(\E rejected \in BOOLEAN, r \in Randoms : CallbackSettle(h, rejected, r))

SpecLive == InitLive /\ [][LiveNext]_vars /\ LiveFairness

SpecStore == Init /\ [][StoreNext]_vars

-----------------------------------------------------------------------------
(* Claims about the store *)

IsSetState == last.op = "setState"

\* C6: setState(id, s) on a TransitionState whose status already is s changes
\* updatedAt only: lastStatus, lastChangedAt, lastOpenAt and consecutiveFailures
\* keep the values they had before the call.
C6_SameStatusOnlyTouchesUpdatedAt ==
    (IsSetState /\ last.pre # <<>> /\ last.pre[1].lastStatus = last.status)
        => /\ Has(states, last.id)
           /\ states[last.id].lastStatus = last.pre[1].lastStatus
           /\ states[last.id].lastChangedAt = last.pre[1].lastChangedAt
           /\ states[last.id].lastOpenAt = last.pre[1].lastOpenAt
           /\ states[last.id].consecutiveFailures = last.pre[1].consecutiveFailures
           /\ states[last.id].targetId = last.pre[1].targetId
           /\ states[last.id].updatedAt = last.at

\* A repeated setState(OPEN) made later than the change to OPEN.
C6_Witness ==
    /\ IsSetState
    /\ last.pre # <<>>
    /\ last.pre[1].lastStatus = last.status
    /\ last.status = "OPEN"
    /\ last.at > last.pre[1].lastChangedAt
    /\ states[last.id].updatedAt # last.pre[1].updatedAt

\* C7: setState(id, s) on a TransitionState whose status differs from s sets
\* lastStatus to s and lastChangedAt to now, sets lastOpenAt to now exactly when
\* s = OPEN (and otherwise keeps it), and sets consecutiveFailures to 0.
C7_ChangedStatusUpdate ==
    (IsSetState /\ last.pre # <<>> /\ last.pre[1].lastStatus # last.status)
        => /\ Has(states, last.id)
           /\ states[last.id].lastStatus = last.status
           /\ states[last.id].lastChangedAt = last.at
           /\ states[last.id].lastOpenAt =
                 IF last.status = "OPEN" THEN last.at ELSE last.pre[1].lastOpenAt
           /\ states[last.id].consecutiveFailures = 0

\* OPEN -> CLOSED at a later time: lastOpenAt keeps the earlier, non-null value.
C7_Witness ==
    /\ IsSetState
    /\ last.pre # <<>>
    /\ last.pre[1].lastStatus = "OPEN"
    /\ last.status = "CLOSED"
    /\ last.pre[1].lastOpenAt # NullTime
    /\ last.at > last.pre[1].lastOpenAt
    /\ states[last.id].lastOpenAt = last.pre[1].lastOpenAt

Min(a, b) == IF a < b THEN a ELSE b

\* C8: the stored log of a target holds at most 100 entries and is, newest first,
\* the most recently stored entries: the first entries of the history of all
\* entries addLog stored for it.  An addLog that reads a log of k entries leaves
\* min(100, k + 1): only entries beyond the 100 newest are evicted.
C8_LogBoundedNewestFirst ==
    \A t \in TargetIds :
        /\ Len(logs[t]) <= MaxLogs
        /\ Len(logs[t]) <= Len(appended[t])
        /\ logs[t] = SubSeq(appended[t], 1, Len(logs[t]))
        /\ (last.op = "addLog" /\ last.id = t /\ ~last.threw /\ last.pre # <<>>)
              => Len(logs[t]) = Min(MaxLogs, last.pre[1] + 1)

\* More entries were stored than the log retains, and the oldest are gone.
C8_Witness ==
    /\ Len(appended[LogTarget]) > MaxLogs
    /\ Len(logs[LogTarget]) = MaxLogs
    /\ logs[LogTarget][1] = appended[LogTarget][1]
    /\ logs[LogTarget][MaxLogs] # appended[LogTarget][Len(appended[LogTarget])]

-----------------------------------------------------------------------------
(* Claims about the scheduler *)

Fired == sched.op = "fire"

Settled == sched.op \in {"resolve", "reject"}

\* At most one invocation of the routine is in progress, and a timer handler
\* begins one only when none is.
NoOverlap ==
    /\ Cardinality(awaiting) <= 1
    /\ (Fired /\ sched.invoked) => ~sched.inflight

C5_StopLeavesNothingPending ==
    /\ ~isRunning => pending = {}
    /\ (Fired /\ sched.invoked) => sched.running
    /\ (Settled /\ ~sched.running) => ~sched.rearmed

-----------------------------------------------------------------------------
(* Claims about the orchestrator tick *)

\* The status persisted for the target of the running iteration when the tick started
StatusBeforeTick == PrevStatus(pipe.startStates, pipe.id)

ChangeToOpen == result.status = "OPEN" /\ StatusBeforeTick # "OPEN"

C2_FailedSendStillCommits ==
    (pipe.finished /\ pipe.sendCalled /\ ~pipe.sendOk)
        => (Has(states, pipe.id) /\ states[pipe.id].lastStatus = "OPEN")

\* C3: between ticks, each target has had exactly as many calls of the gateway
\* as recorded changes of its status from a value other than OPEN to OPEN.
C3_CallsMatchRecordedChanges ==
    pc = "idle" => \A t \in TargetIds : calls[t] = trans[t]

C10_RenderFailureGivesUnknown ==
    (pipe.finished /\ pipe.renderFailed) =>
        /\ pipe.checked
        /\ result.status = "UNKNOWN"
        /\ result.evidence = <<>>
        /\ result.error # "undefined"
        /\ pipe.logged
        /\ logs[pipe.id][1].status = "UNKNOWN"
        /\ logs[pipe.id][1].error = result.error
        /\ ~pipe.sendCalled
        /\ Has(states, pipe.id)
        /\ states[pipe.id].lastStatus = "UNKNOWN"

\* C11: after any sequence of addTarget, updateTarget, deleteTarget and setState
\* calls, the ids that have a TransitionState are exactly the ids of the
\* existing Targets.
C11_StateIffTarget ==
    (last.op \in {"addTarget", "updateTarget", "deleteTarget", "setState"})
        => DOMAIN states = DOMAIN targets

\* C12: deleteTarget(id) returns true iff the Target existed, and once it has
\* returned, getTarget(id) and getState(id) are not-found and
\* getRecentLogs(id, n) is empty.
C12_DeleteRemovesEverything ==
    (last.op = "deleteTarget" /\ ~last.threw)
        => /\ last.ret = last.had
           /\ GetTarget(targets, last.id) = <<>>
           /\ GetState(states, last.id) = <<>>
           /\ GetRecentLogs(logs, last.id, MaxLogs) = <<>>

\* The mutating calls that reach save(): updateTarget returns before it when the
\* id is unknown.
Wrote ==
    \/ last.op \in {"addTarget", "deleteTarget", "setState"}
    \/ last.op = "updateTarget" /\ last.had

Durable ==
    /\ LoadMap(diskTargets) = targets
    /\ LoadMap(diskStates) = states
    /\ (last.op = "setState") =>
          /\ GetState(states, last.id) # <<>>
          /\ GetState(states, last.id)[1].lastStatus = last.status
          /\ GetState(LoadMap(diskStates), last.id) # <<>>
          /\ GetState(LoadMap(diskStates), last.id)[1].lastStatus = last.status

\* C13 (amended): after a mutating store operation that reached save() has
\* returned, the two files decode to exactly the in-memory targets and states,
\* and getState(id) after setState(id, s) gives lastStatus = s on this manager
\* and on one constructed afterwards.
C13_ReturnedWritesAreDurable == (Wrote /\ ~last.threw) => Durable

\* C13 as stated: the same after every mutating store operation that returns.
C13_AsStated ==
    (last.op \in {"addTarget", "updateTarget", "deleteTarget", "setState"} /\ ~last.threw)
        => Durable

\* A setState that changed the stored status has returned after an earlier call
\* had thrown out of save().
C13_Witness ==
    /\ IsSetState /\ ~last.threw /\ last.n = MaxStoreCalls
    /\ last.pre # <<>>
    /\ last.pre[1].lastStatus # last.status
    /\ diskStates.kind = "whole"
    /\ <<last.id, states[last.id]>> \in diskStates.json
    /\ Has(targets, last.id)

\* C14: when the process dies during a store write, a restarted process reads
\* for each persisted value either the complete new value or the complete
\* prior one.
C14_CrashLeavesOldOrNew ==
    (last.op = "crash")
        => /\ states \in {last.pre[1], last.pre[2]}
           /\ targets \in {last.pre[3], last.pre[4]}

\* What a settled invocation leaves behind: the in-flight flag cleared, the
\* running state untouched, and one new timer armed iff the scheduler is running.
AfterSettle ==
    /\ ~isCallbackRunning
    /\ isRunning = sched.running
    /\ sched.rearmed <=> sched.running
    /\ sched.rearmed => (timer \notin sched.pendingBefore /\
                          pending = sched.pendingBefore \cup {timer})
    /\ ~sched.rearmed => pending = sched.pendingBefore

\* C15: a rejected invocation is caught: the in-flight flag is cleared, the
\* scheduler stays running and the next timer is armed exactly as after an
\* invocation that resolved.
C15_RejectionKeepsTicking == (sched.op \in {"reject", "resolve"}) => AfterSettle

C15_Witness ==
    /\ sched.op = "reject" /\ sched.running /\ sched.rearmed
    /\ isRunning /\ timer \in pending /\ awaiting = {}

\* C16: updateInterval(n) always replaces the base interval; with an invocation
\* in progress it neither cancels nor arms a timer; running with a pending timer
\* and no invocation in progress it cancels that timer and arms exactly one new
\* one, computed from n; on a scheduler that is not running it arms nothing.
C16_UpdateInterval ==
    (sched.op = "updateInterval") =>
        /\ baseIntervalMs = sched.arg
        /\ sched.inflight => (pending = sched.pendingBefore /\ ~sched.rearmed)
        /\ (sched.running /\ ~sched.inflight /\ sched.pendingBefore # {}) =>
              /\ sched.rearmed
              /\ sched.h \in sched.pendingBefore
              /\ timer \notin sched.pendingBefore
              /\ pending = (sched.pendingBefore \ {sched.h}) \cup {timer}
              /\ \E r \in Randoms : delayOf[timer] = CalculateDelay(sched.arg, jitterPct, r)
        /\ ~sched.running => (pending = sched.pendingBefore /\ ~sched.rearmed)

C16_Witness ==
    /\ sched.op = "updateInterval" /\ sched.running /\ ~sched.inflight
    /\ sched.rearmed /\ sched.h \in sched.pendingBefore /\ sched.h \notin pending
    /\ sched.arg = 1501 /\ delayOf[timer] > 1501

JitterLow(base, pct) == Max(MinDelayMs, (base * (100 - pct)) \div 100)

JitterHigh(base, pct) == Max(MinDelayMs, (base * (100 + pct)) \div 100)

C18_OneCallPerOpenRun == \A t \in TargetIds : openRun[t] <= 1

\* The pipeline positions that come after the final URL was brought up to date
AfterUrlUpdate == {"getState", "send", "setState"}

\* The status persisted for the running target when the tick began
PersistedBefore ==
    IF pipe.id \in DOMAIN pipe.startStates
    THEN pipe.startStates[pipe.id].lastStatus
    ELSE "UNKNOWN"

\* C20: one target's pipeline runs check, addLog, the final-URL update if the
\* URL changed, getState, the decision with the send it warrants, then
\* setState; the decision uses the status persisted before this tick's setState.
C20_PipelineOrder ==
    /\ pc \in {"addLog", "updateTarget"} \cup AfterUrlUpdate =>
          (pipe.checked /\ ~pipe.stateSet)
    /\ pc \in {"addLog", "updateTarget", "getState", "send"} => ~pipe.sendCalled
    /\ pc = "setState" =>
          /\ prevStatus = PersistedBefore
          /\ pipe.sendCalled <=> (result.status = "OPEN" /\ PersistedBefore # "OPEN")
    /\ pc = "addLog" => ~pipe.logged
    /\ pc = "updateTarget" =>
          (pipe.logged /\ targets[cur.id].urlFinalLast # result.finalUrl)
    /\ pc \in AfterUrlUpdate =>
          (pipe.logged /\ targets[cur.id].urlFinalLast = result.finalUrl)
    /\ pc = "send" =>
          (prevStatus = PersistedBefore /\ result.status = "OPEN" /\ prevStatus # "OPEN")
    /\ pipe.sendCalled =>
          (pipe.logged /\ prevStatus = PersistedBefore /\ prevStatus # "OPEN")
    /\ pipe.stateSet =>
          /\ pipe.logged
          /\ prevStatus = PersistedBefore
          /\ pipe.sendCalled <=> (result.status = "OPEN" /\ PersistedBefore # "OPEN")
          /\ states[pipe.id].lastStatus = result.status

\* A target persisted OPEN before the tick is found CLOSED at a new final URL:
\* its pipeline has gone through every step, without a send, up to setState.
C20_Witness ==
    /\ pipe.finished /\ pipe.stateSet /\ ~pipe.sendCalled
    /\ PersistedBefore = "OPEN" /\ result.status = "CLOSED"
    /\ tickNo = MaxTicks
    /\ targets[pipe.id].urlFinalLast = result.finalUrl

\* C19: at most one observation is in flight at any time: at most one
\* invocation of checkLoop is in progress, a pipeline runs only inside it and
\* for one target at a time, and an invocation begins only when the tick before
\* it has ended, so that the setState calls of a target follow the order of its
\* observations.
C19_OneObservationInFlight ==
    /\ Cardinality(awaiting) <= 1
    /\ pc # "idle" => awaiting # {}
    /\ tickNo <= sched.runs
    /\ tickNo < sched.runs =>
          (pc = "idle" /\ (tickNo = 0 \/ pipe.outcome # "none"))
    /\ pc \in {"check", "addLog", "updateTarget", "getState", "send", "setState"} =>
          (pipe.id = cur.id /\ cur.id \notin pipe.visited /\ ~pipe.finished)

\* During the second tick, with a timer of a repeated start() still armed, a
\* timer fired while a pipeline was about to call setState and was skipped.
C19_Witness ==
    /\ tickNo = 2 /\ pc = "setState"
    /\ sched.op = "fire" /\ ~sched.invoked /\ sched.inflight
    /\ pending # {} /\ Cardinality(awaiting) = 1

\* check has returned a result / a result of a page that rendered
Checked == result # NoResult

Rendered == Checked /\ result.error = "undefined"

RuleNames == <<"A", "B", "C">>

Occurs(policy, n) == \E i \in 1..Len(policy) : policy[i] = n

StatusOf(evidence) == IF evidence = <<>> THEN "CLOSED" ELSE "OPEN"

\* C21: the active rules are the rules among A, B, C whose name occurs in the
\* policy; evidence lists, in the order A, B, C and once each, the active rules
\* whose predicate holds on the page; the status is CLOSED for empty evidence
\* and OPEN otherwise.
C21_Classification ==
    Rendered =>
        /\ Names(GetActiveRules(cur.policy)) =
               SelectSeq(RuleNames, LAMBDA n : Occurs(cur.policy, n))
        /\ result.evidence =
               SelectSeq(RuleNames, LAMBDA n : Occurs(cur.policy, n) /\
                                               ApplyRule(snapshot, [name |-> n]))
        /\ result.status = StatusOf(result.evidence)

\* Policy "CA" on a page where rules A and C hold: evidence A, C and status OPEN.
C21_Witness ==
    /\ Rendered /\ cur.policy = <<"C", "A">>
    /\ snapshot.count.A > 0 /\ snapshot.count.B > 0
    /\ result.evidence = <<"A", "C">> /\ result.status = "OPEN"

\* The texts of Texts that hold a clock-like token: "10:30" and " 9:30 "
TimeTexts == {<<"d", "d", ":", "d", "d">>, <<"o", "d", ":", "d", "d", "o">>}

EnabledWithTime(el) ==
    el.tag \in {"button", "a"} /\ ~el.disabled /\ el.readable /\ el.text \in TimeTexts

\* C22: rule C matches iff some enabled button or link has a text with a
\* clock-like time token; under policy "C" a page without one is CLOSED with
\* empty evidence.
C22_RuleC ==
    (Rendered /\ Occurs(cur.policy, "C") /\ "C" \notin snapshot.failing) =>
        /\ Occurs(result.evidence, "C") <=>
               \E i \in DOMAIN snapshot.elems : EnabledWithTime(snapshot.elems[i])
        /\ (cur.policy = <<"C">> /\
            ~(\E i \in DOMAIN snapshot.elems : EnabledWithTime(snapshot.elems[i])))
               => (result.status = "CLOSED" /\ result.evidence = <<>>)

\* Policy "C", a disabled button "10:30" and an enabled link without a time: CLOSED.
C22_Witness ==
    /\ Rendered /\ cur.policy = <<"C">> /\ snapshot.failing = {}
    /\ snapshot.elems = << El("button", TRUE, TRUE, <<"d", "d", ":", "d", "d">>),
                            El("a", FALSE, TRUE, <<"o", "o">>) >>
    /\ result.status = "CLOSED" /\ result.evidence = <<>>

\* C23: an active rule whose evaluation raises contributes no evidence, the
\* other active rules are evaluated as without the error, and the result is
\* OPEN or CLOSED by the remaining evidence.
C23_RuleErrorIsNoEvidence ==
    (Checked /\ result.finalUrl \in OkUrls) =>
        /\ result.status \in {"OPEN", "CLOSED"}
        /\ result.evidence =
              SelectSeq(Evidence([snapshot EXCEPT !.failing = {}], cur.policy),
                        LAMBDA n : n \notin snapshot.failing)
        /\ result.status = StatusOf(result.evidence)

\* Rule A raises under policy "AB" on a page where A and B would both hold.
C23_Witness ==
    /\ Checked /\ cur.policy = <<"A", "B">> /\ snapshot.failing = {"A"}
    /\ snapshot.count.A > 0 /\ snapshot.count.B > 0
    /\ result.evidence = <<"B">> /\ result.status = "OPEN"

\* A store call on an id that had no Target has just been made
UnknownIdCall(op) == last'.n = last.n + 1 /\ last'.op = op /\ ~Has(targets, last'.id)

\* C24 (amended): for an id that has no Target, getTarget returns not-found and
\* updateTarget changes nothing in the store; setState(id, s) leaves a
\* TransitionState with lastStatus = s, and when the id had no TransitionState
\* either, the one it creates has lastOpenAt set iff s = OPEN.
C24_UnknownId ==
    [][ /\ \A id \in TargetIds : ~Has(targets, id) => GetTarget(targets, id) = <<>>
        /\ UnknownIdCall("updateTarget") =>
               UNCHANGED <<targets, states, diskTargets, diskStates, logs>>
        /\ UnknownIdCall("setState") =>
               /\ GetState(states', last'.id) # <<>>
               /\ states'[last'.id].lastStatus = last'.status
               /\ ~Has(states, last'.id) =>
                      (states'[last'.id].lastOpenAt # NullTime <=> last'.status = "OPEN")
      ]_vars

\* C24 as stated: setState on an id without a Target always leaves lastOpenAt
\* set iff s = OPEN.
C24_AsStated ==
    (last.op = "setState" /\ ~last.had) =>
        /\ Has(states, last.id) /\ states[last.id].lastStatus = last.status
        /\ states[last.id].lastOpenAt # NullTime <=> last.status = "OPEN"

\* setState(id, OPEN) has returned for an id with neither Target nor state, while
\* another Target exists.
C24_Witness ==
    /\ last.op = "setState" /\ ~last.had /\ last.pre = <<>> /\ ~last.threw
    /\ last.status = "OPEN" /\ DOMAIN targets # {}
    /\ GetTarget(targets, last.id) = <<>>
    /\ states[last.id].lastStatus = "OPEN" /\ states[last.id].lastOpenAt = last.at

\* C25: when addLog fails for a target during a tick, that target's iteration
\* still reads the stored status, decides about the notification and calls
\* setState, and the remaining enabled targets are still visited.
C25_LogFailureHasNoEffect ==
    /\ (pipe.finished /\ pipe.checked /\ pipe.threwAt = "addLog") => pipe.stateSet
    /\ (pipe.outcome = "resolved" /\ \E t \in pipe.thrown : t[2] = "addLog")
           => pipe.visited = pipe.enabledAtStart

\* C26: a store operation that met an I/O failure has raised it: addLog never
\* returns after its log file could not be read.
C26_IOFailuresAreRaised ==
    (last.op = "addLog" /\ last.pre = <<>>) => last.threw

\* C27: every notification of a change to OPEN carries the target's input URL
\* as click URL, also when the final URL differs from it and urlFinalLast was
\* updated earlier in the same iteration.
C27_ClickUrlIsInputUrl ==
    pipe.sent # <<>> =>
        /\ Has(targets, pipe.id)
        /\ pipe.sent[1].clickUrl = targets[pipe.id].urlInput

\* A notification went out after the redirect target was stored in this iteration.
C27_Witness ==
    /\ pipe.sent # <<>> /\ pipe.sendOk
    /\ cur.urlFinalLast # result.finalUrl
    /\ targets[pipe.id].urlFinalLast = result.finalUrl
    /\ result.finalUrl # targets[pipe.id].urlInput
    /\ pipe.sent[1].clickUrl = targets[pipe.id].urlInput

\* C28: a heartbeat is delivered at most once per calendar date, is posted
\* only in ticks that run during hour 7 and only with a heartbeat topic
\* configured, the last-sent date is stored only after a delivered heartbeat,
\* and a failed heartbeat does not keep the tick from visiting its targets.
C28_HeartbeatOncePerDay ==
    /\ \A a \in hb.delivered : \A b \in hb.delivered : a[1] = b[1] => a = b
    /\ \A a \in hb.attempts : a[2] = HEARTBEAT_HOUR /\ hb.topic
    /\ hb.file # NoDate => \E a \in hb.delivered : a[1] = hb.file
    /\ (pipe.outcome = "resolved" /\ hb.outcome = "failed")
           => pipe.visited = pipe.enabledAtStart

\* C29: once an iteration is past the final-URL step, the stored urlFinalLast
\* is the final URL the check resolved, and after a check that failed to
\* render it is still the final URL known before the check.
C29_FinalUrlTracksChecks ==
    (pc \in AfterUrlUpdate /\ pipe.checked /\ Has(targets, pipe.id)) =>
        IF pipe.renderFailed
        THEN targets[pipe.id].urlFinalLast = cur.urlFinalLast
        ELSE targets[pipe.id].urlFinalLast = result.finalUrl

\* A store operation on one target has just run: returned, thrown, or been cut
\* short by the death of the process
OperationOnTarget ==
    /\ last' # last
    /\ last'.op \in {"setState", "updateTarget", "deleteTarget", "addLog", "crash"}

\* C30: setState, updateTarget, addLog and deleteTarget on one id leave the
\* Target record, the TransitionState and the log of every other id as they
\* were, also when the operation fails part-way.
C30_OtherTargetsUntouched ==
    [][ OperationOnTarget =>
          \A other \in TargetIds \ {last'.id} :
              /\ GetTarget(targets', other) = GetTarget(targets, other)
              /\ GetState(states', other) = GetState(states, other)
              /\ GetRecentLogs(logs', other, MaxLogs) = GetRecentLogs(logs, other, MaxLogs)
      ]_vars

\* C31: a target whose enabled flag is false is not visited by a tick: no
\* step of checkLoop renders it, appends to its log, changes its Target record
\* or TransitionState, or calls notifier.send for it.
C31_DisabledTargetsUntouched ==
    [][ \A id \in DOMAIN targets :
          ~targets[id].enabled =>
              /\ pc' \in {"check", "addLog", "updateTarget", "getState", "send", "setState"}
                     => cur'.id # id
              /\ id \notin pipe'.visited
              /\ GetTarget(targets', id) = GetTarget(targets, id)
              /\ GetState(states', id) = GetState(states, id)
              /\ logs'[id] = logs[id] /\ appended'[id] = appended[id]
              /\ calls'[id] = calls[id] /\ trans'[id] = trans[id]
      ]_vars

\* A tick has ended in which the enabled target was notified and the disabled
\* one still has its initial state and an empty log.
C31_Witness ==
    /\ pipe.outcome = "resolved" /\ tickNo = MaxTicks
    /\ \E id \in DOMAIN targets :
          /\ ~targets[id].enabled /\ id \notin pipe.enabledAtStart
          /\ Has(states, id) /\ states[id] = InitialState(id, 1)
          /\ logs[id] = <<>> /\ calls[id] = 0
    /\ \E id \in pipe.visited : calls[id] > 0 /\ logs[id] # <<>>

\* C32: every TransitionState, in memory and in states.json, has
\* consecutiveFailures = 0 whatever calls were made.
C32_ConsecutiveFailuresIsZero ==
    /\ \A id \in DOMAIN states : states[id].consecutiveFailures = 0
    /\ \A id \in DOMAIN LoadMap(diskStates) : LoadMap(diskStates)[id].consecutiveFailures = 0

\* setState(id, UNKNOWN) has returned for a target whose status was not UNKNOWN.
C32_Witness ==
    /\ IsSetState /\ ~last.threw /\ last.status = "UNKNOWN"
    /\ last.pre # <<>> /\ last.pre[1].lastStatus # "UNKNOWN" /\ last.had
    /\ states[last.id].lastStatus = "UNKNOWN"
    /\ states[last.id].consecutiveFailures = 0

\* C33: in every TransitionState, lastStatus = OPEN implies that lastOpenAt is
\* set and equals lastChangedAt, and lastOpenAt is never later than
\* lastChangedAt; a setState on an existing TransitionState never resets a
\* lastOpenAt that was set.
C33_LastOpenAt ==
    [][ /\ \A id \in DOMAIN states' :
              /\ states'[id].lastStatus = "OPEN" =>
                     /\ states'[id].lastOpenAt # NullTime
                     /\ states'[id].lastOpenAt = states'[id].lastChangedAt
              /\ states'[id].lastOpenAt <= states'[id].lastChangedAt
        /\ (last' # last /\ last'.op = "setState" /\ Has(states, last'.id)
               /\ states[last'.id].lastOpenAt # NullTime)
              => states'[last'.id].lastOpenAt # NullTime
      ]_vars

\* A target that was OPEN has been set to CLOSED at a later time: lastOpenAt
\* keeps the earlier time.
C33_Witness ==
    /\ IsSetState /\ ~last.threw /\ last.status = "CLOSED"
    /\ last.pre # <<>> /\ last.pre[1].lastStatus = "OPEN"
    /\ states[last.id].lastOpenAt # NullTime
    /\ states[last.id].lastOpenAt < states[last.id].lastChangedAt

\* The routine has just been invoked / updateInterval has just cancelled a timer
Invoked == sched.op = "fire" /\ sched.invoked

CancelledByUpdate == sched'.op = "updateInterval" /\ sched'.rearmed

\* C34 (amended): while the scheduler is running and never stopped, if every
\* invocation settles, every timer that stays armed fires, and updateInterval
\* cancels a timer only finitely often, the routine is invoked again and again.
C34_InvokedInfinitelyOften == (<>[][~CancelledByUpdate]_vars) => (isRunning ~> Invoked)

\* C34 as stated: the same for any pattern of updateInterval calls.
C34_AsStated == isRunning ~> Invoked

\* The routine is invoked by a timer that updateInterval armed with the other
\* base interval.
C34_Witness ==
    /\ Invoked /\ sched.reuse /\ isRunning
    /\ sched.pendingBefore = {sched.h}
    /\ baseIntervalMs = 3000

\* C35: at most one timer is armed and not yet fired; a running scheduler with
\* no invocation in flight has exactly one, and none while an invocation is in
\* flight.
C35_AtMostOneTimer ==
    /\ Cardinality(pending) <= 1
    /\ (isRunning /\ awaiting = {}) => Cardinality(pending) = 1
    /\ awaiting # {} => pending = {}

\* C36: with start() called once and updateInterval never, the scheduler
\* without the in-flight flag and the guarded one arm the same timers with the
\* same delays and invoke the routine in the same steps, and no timer fires
\* while an invocation is in flight.
C36_GuardNeverTaken ==
    plain.on =>
        /\ plain.isRunning = isRunning /\ plain.timer = timer
        /\ plain.pending = pending /\ plain.delayOf = delayOf
        /\ plain.awaiting = awaiting /\ plain.armed = armed
        /\ sched.op # "none" =>
               (plain.invoked = sched.invoked /\ plain.rearmed = sched.rearmed)
        /\ ~(sched.op = "fire" /\ sched.inflight)

\* The second invocation has settled with a rejection and both schedulers have
\* armed their third timer.
C36_Witness ==
    /\ plain.on /\ sched.op = "reject" /\ sched.runs = 2
    /\ sched.rearmed /\ plain.rearmed
    /\ plain.pending = {3} /\ pending = {3}

====
